---- MODULE Spec2Model ----
(***************************************************************************)
(* Model of the duplex network communicators of CentralApplication:        *)
(*   server_TCP.py  (class TCPServer,       stream transport)              *)
(*   server_UDP.py  (class UDPCommunicator, datagram transport)            *)
(* One behaviour of the model is one run of one of the two scripts; which  *)
(* script runs is fixed in the initial state (transport).  Every attribute *)
(* read or write of the shared object that another thread can observe is a *)
(* step of its own, as the interpreter may switch threads between them.    *)
(***************************************************************************)
EXTENDS Integers, Sequences, FiniteSets, TLC

\* ------------------------------------------------------------------ bounds
MaxPeers == 2        \* stream peers that connect during one run
MaxStream == 1       \* bytes of the stream that wait to be read
MaxDgrams == 2       \* datagrams that wait to be read
BufSize == 2         \* the receive buffer size (1024 in the source), scaled

\* ---------------------------------------------------------------- values
None == <<>>
Threads == {"main", "rx", "cmd"}
Peers == 1..MaxPeers
LSock == <<"listen">>              \* the listening socket object
DSock == <<"dgram">>               \* the datagram socket object
PSock(p) == <<"peer", p>>          \* the socket object accept() returns
Addr(p) == <<"addr", p>>           \* the address accept() returns with it
Handles == {LSock, DSock} \cup {PSock(p) : p \in Peers}

\* Text is a sequence of code points, wire data a sequence of bytes.
QUIT == <<113, 117, 105, 116>>                    \* 'quit'
\* the lines typed: empty, 'quit', 'Quit', and a one-letter non-ASCII line
Lines == { <<>>, QUIT, <<81, 117, 105, 116>>, <<233>> }
\* 'B' repeated: a payload one byte longer than the receive buffer
Oversize == [i \in 1..(BufSize + 1) |-> 66]
\* 'A', invalid UTF-8, and the oversize payload
Payloads == { <<65>>, <<255>>, Oversize }
\* the same and a two-byte character, for runs that follow the data closely
DataPayloads == Payloads \cup { <<195, 169>> }   \* 'e' with acute accent
\* bytes of the stream that wait to be read in such runs
MaxData == BufSize + 1

\* str.lower(), on the code points the model uses (ASCII and Latin-1)
Lower(s) ==
  [i \in DOMAIN s |->
     IF s[i] \in 65..90 \/ (s[i] \in 192..222 /\ s[i] # 215)
       THEN s[i] + 32 ELSE s[i]]

\* str.encode('utf-8'), for code points below U+0800
RECURSIVE Encode(_)
Encode(s) ==
  IF s = <<>> THEN <<>>
  ELSE (IF s[1] < 128 THEN <<s[1]>>
        ELSE <<192 + (s[1] \div 64), 128 + (s[1] % 64)>>) \o Encode(Tail(s))

\* whether bytes.decode('utf-8') succeeds (strict), one- and two-byte forms;
\* every other lead byte is rejected (the model sends no longer forms)
RECURSIVE Utf8Valid(_)
Utf8Valid(b) ==
  IF b = <<>> THEN TRUE
  ELSE IF b[1] < 128 THEN Utf8Valid(Tail(b))
  ELSE IF b[1] \in 194..223 /\ Len(b) >= 2 /\ b[2] \in 128..191
       THEN Utf8Valid(Tail(Tail(b)))
  ELSE FALSE

\* bytes.decode('utf-8') of valid input
RECURSIVE Decode(_)
Decode(b) ==
  IF b = <<>> THEN <<>>
  ELSE IF b[1] < 128 THEN <<b[1]>> \o Decode(Tail(b))
  ELSE <<(b[1] - 192) * 64 + (b[2] - 128)>> \o Decode(Tail(Tail(b)))

Prefix(s, n) == SubSeq(s, 1, n)
Suffix(s, n) == SubSeq(s, n + 1, Len(s))
Min(a, b) == IF a < b THEN a ELSE b


\* ------------------------------------------------------------------ state
VARIABLES
  transport,       \* "Stream" (server_TCP.py) or "Datagram" (server_UDP.py)
  closeWakes,      \* platform: does close() from another thread make a call
                   \* that is blocked on the socket fail (TRUE) or is the
                   \* blocked call left waiting (FALSE)
  running,         \* self.running
  server_socket,   \* TCPServer.server_socket
  client_socket,   \* TCPServer.client_socket
  client_address,  \* TCPServer.client_address
  sock,            \* UDPCommunicator.sock
  pc,              \* position of each thread
  acc,             \* rx: the peer accept() returned, not yet stored
  msg,             \* input thread: the line handed to send_message
  hstate,          \* socket object -> "unborn" | "open" | "closed"
  closeCalls,      \* socket object -> number of close() calls made on it
  peer,            \* stream peer -> "idle"|"queued"|"conn"|"fin"|"rst"|"gone"
  stream,          \* bytes the connected peer sent, not yet read
  dgrams,          \* datagrams delivered to the bound socket, not yet read
  out,             \* what the last step printed or transmitted, if anything
  falls,           \* number of true -> false transitions of running
  raised,          \* threads in which a stop() call raised
  stopsDone,       \* number of stop() calls that returned
  quitTyped,       \* a quit line has been read
  interrupted      \* the external interrupt has been delivered

obj == <<running, server_socket, client_socket, client_address, sock>>
ctl == <<pc, acc, msg>>
osv == <<hstate, closeCalls, peer, stream, dgrams>>
obs == <<falls, raised, stopsDone, quitTyped, interrupted>>
plat == <<transport, closeWakes>>
vars == <<plat, obj, ctl, osv, out, obs>>

Say(k, d) == [kind |-> k, data |-> d]
Quiet == Say("none", <<>>)

Exited == pc["main"] = "m_done"      \* the main thread ended: the process
                                     \* exits and its daemon threads with it
Live == ~Exited
At(t, l) == Live /\ pc[t] = l
Goto(t, l) == pc' = [pc EXCEPT ![t] = l]

\* socket.close(): releases the handle, a no-op on a closed one; never raises
Closed(hs, h) == [hs EXCEPT ![h] = "closed"]
Counted(cc, h) == [cc EXCEPT ![h] = @ + 1]

Init ==
  /\ transport \in {"Stream", "Datagram"}
  /\ closeWakes \in BOOLEAN
  /\ running = FALSE
  /\ server_socket = None
  /\ client_socket = None
  /\ client_address = None
  /\ sock = None
  /\ pc = [t \in Threads |->
             IF t = "main" THEN (IF transport = "Stream" THEN "m_sock" ELSE "u_sock")
             ELSE "off"]
  /\ acc = None
  /\ msg = None
  /\ hstate = [h \in Handles |-> "unborn"]
  /\ closeCalls = [h \in Handles |-> 0]
  /\ peer = [p \in Peers |-> "idle"]
  /\ stream = <<>>
  /\ dgrams = <<>>
  /\ out = Quiet
  /\ falls = 0
  /\ raised = {}
  /\ stopsDone = 0
  /\ quitTyped = FALSE
  /\ interrupted = FALSE

\* ============================ server_TCP.py ============================

\* ---- __main__ and TCPServer.start (main thread)
TcpCreate ==
  /\ At("main", "m_sock")
  /\ server_socket' = LSock
  /\ hstate' = [hstate EXCEPT ![LSock] = "open"]
  /\ Goto("main", "m_run")
  /\ out' = Quiet
  /\ UNCHANGED <<plat, running, client_socket, client_address, sock, acc, msg,
                 closeCalls, peer, stream, dgrams, obs>>

TcpSetRunning ==
  /\ At("main", "m_run")
  /\ running' = TRUE
  /\ Goto("main", "m_thr_rx")
  /\ out' = Quiet
  /\ UNCHANGED <<plat, server_socket, client_socket, client_address, sock,
                 acc, msg, osv, obs>>

TcpStartReceive ==
  /\ At("main", "m_thr_rx")
  /\ pc' = [pc EXCEPT !["main"] = "m_thr_cmd", !["rx"] = "r_loop"]
  /\ out' = Quiet
  /\ UNCHANGED <<plat, obj, acc, msg, osv, obs>>

TcpStartCommand ==
  /\ At("main", "m_thr_cmd")
  /\ pc' = [pc EXCEPT !["main"] = "m_sleep", !["cmd"] = "c_loop"]
  /\ out' = Quiet
  /\ UNCHANGED <<plat, obj, acc, msg, osv, obs>>

\* while True: time.sleep(1)
MainSleep ==
  /\ At("main", "m_sleep")
  /\ Goto("main", "m_sleep")
  /\ out' = Quiet
  /\ UNCHANGED <<plat, obj, acc, msg, osv, obs>>

\* KeyboardInterrupt in the main thread: except KeyboardInterrupt: stop()
TcpInterrupt ==
  /\ Live /\ transport = "Stream" /\ ~interrupted
  /\ pc["main"] \in {"m_sock", "m_run", "m_thr_rx", "m_thr_cmd", "m_sleep"}
  /\ interrupted' = TRUE
  /\ Goto("main", "s_flag")
  /\ out' = Quiet
  /\ UNCHANGED <<plat, obj, acc, msg, osv, falls, raised, stopsDone, quitTyped>>

\* a stop() that leaves the running flag alone
StopFlagKeep(t) ==
  /\ At(t, "s_flag")
  /\ Goto(t, "s_chk")
  /\ out' = Quiet
  /\ UNCHANGED <<plat, obj, acc, msg, osv, obs>>

\* ---- TCPServer.stop, called in thread t (main or cmd)
\* self.running = False
StopFlag(t) ==
  /\ At(t, "s_flag")
  /\ running' = FALSE
  /\ falls' = IF running THEN falls + 1 ELSE falls
  /\ Goto(t, "s_chk")
  /\ out' = Quiet
  /\ UNCHANGED <<plat, server_socket, client_socket, client_address, sock,
                 acc, msg, osv, raised, stopsDone, quitTyped, interrupted>>

\* if self.client_socket:
StopCheckClient(t) ==
  /\ At(t, "s_chk")
  /\ Goto(t, IF client_socket # None THEN "s_cli" ELSE "s_srv")
  /\ out' = Quiet
  /\ UNCHANGED <<plat, obj, acc, msg, osv, obs>>

\* self.client_socket.close(): the attribute is read again; if the receive
\* thread has stored None meanwhile the call raises AttributeError, which
\* command_loop catches and prints and which ends the main thread
StopCloseClient(t) ==
  /\ At(t, "s_cli")
  /\ IF client_socket = None
       THEN /\ raised' = raised \cup {t}
            /\ out' = IF t = "cmd" THEN Say("command_error", <<>>) ELSE Quiet
            /\ Goto(t, IF t = "cmd" THEN "c_loop" ELSE "m_done")
            /\ UNCHANGED <<hstate, closeCalls>>
       ELSE /\ hstate' = Closed(hstate, client_socket)
            /\ closeCalls' = Counted(closeCalls, client_socket)
            /\ Goto(t, "s_srv")
            /\ out' = Quiet
            /\ UNCHANGED raised
  /\ UNCHANGED <<plat, obj, acc, msg, peer, stream, dgrams, falls, stopsDone,
                 quitTyped, interrupted>>

\* if self.server_socket: self.server_socket.close(); print; return
StopCloseServer(t) ==
  /\ At(t, "s_srv")
  /\ IF server_socket # None
       THEN /\ hstate' = Closed(hstate, server_socket)
            /\ closeCalls' = Counted(closeCalls, server_socket)
       ELSE UNCHANGED <<hstate, closeCalls>>
  /\ stopsDone' = stopsDone + 1
  /\ Goto(t, IF t = "cmd" THEN "c_done" ELSE "m_done")
  /\ out' = Quiet
  /\ UNCHANGED <<plat, obj, acc, msg, peer, stream, dgrams, falls, raised,
                 quitTyped, interrupted>>

\* ---- TCPServer.receive_messages (rx thread)
\* while self.running: (outer loop)
RxLoop ==
  /\ At("rx", "r_loop")
  /\ Goto("rx", IF running THEN "r_accept" ELSE "r_done")
  /\ out' = Quiet
  /\ UNCHANGED <<plat, obj, acc, msg, osv, obs>>

\* self.server_socket.accept() is called: on a socket object that is already
\* closed it raises at once, otherwise the thread blocks in the call
AcceptCall ==
  /\ At("rx", "r_accept")
  /\ Goto("rx", IF hstate[server_socket] = "closed" THEN "r_exc" ELSE "r_accepting")
  /\ out' = Quiet
  /\ UNCHANGED <<plat, obj, acc, msg, osv, obs>>

\* the listener still takes connections: it is open, or it was closed under
\* a blocked accept() that the platform leaves waiting
Listening ==
  \/ hstate[LSock] = "open"
  \/ hstate[LSock] = "closed" /\ pc["rx"] = "r_accepting" /\ ~closeWakes

Queued == {p \in Peers : peer[p] = "queued"}
FirstQueued == CHOOSE p \in Queued : \A q \in Queued : p <= q

\* accept() returns a connection
AcceptReturn ==
  /\ At("rx", "r_accepting")
  /\ Listening
  /\ Queued # {}
  /\ peer' = [peer EXCEPT ![FirstQueued] = "conn"]
  /\ hstate' = [hstate EXCEPT ![PSock(FirstQueued)] = "open"]
  /\ stream' = <<>>
  /\ acc' = FirstQueued
  /\ Goto("rx", "r_assign")
  /\ out' = Quiet
  /\ UNCHANGED <<plat, obj, msg, closeCalls, dgrams, obs>>

\* accept() raises because the listener was closed under it (on a platform
\* that wakes the blocked call)
AcceptClosed ==
  /\ At("rx", "r_accepting")
  /\ hstate[LSock] = "closed" /\ closeWakes
  /\ Goto("rx", "r_exc")
  /\ out' = Quiet
  /\ UNCHANGED <<plat, obj, acc, msg, osv, obs>>

\* accept() raises a transient error while the listener is open
AcceptTransient ==
  /\ At("rx", "r_accepting")
  /\ hstate[LSock] = "open"
  /\ Goto("rx", "r_exc")
  /\ out' = Quiet
  /\ UNCHANGED <<plat, obj, acc, msg, osv, obs>>

\* self.client_socket, self.client_address = <result of accept()>; the two
\* stores are taken as one step (no other thread reads client_address)
AcceptAssign ==
  /\ At("rx", "r_assign")
  /\ client_socket' = PSock(acc)
  /\ client_address' = Addr(acc)
  /\ acc' = None
  /\ Goto("rx", "r_inner")
  /\ out' = Quiet
  /\ UNCHANGED <<plat, running, server_socket, sock, msg, osv, obs>>

\* while self.running: (inner loop)
RxInner ==
  /\ At("rx", "r_inner")
  /\ Goto("rx", IF running THEN "r_recv" ELSE "r_cleanup")
  /\ out' = Quiet
  /\ UNCHANGED <<plat, obj, acc, msg, osv, obs>>

\* self.client_socket.recv(1024) is called: on a closed socket object it
\* raises at once (except Exception: print, break), otherwise it blocks
RecvCall ==
  /\ At("rx", "r_recv")
  /\ IF hstate[client_socket] = "closed"
       THEN /\ out' = Say("recv_error", <<>>)
            /\ Goto("rx", "r_cleanup")
       ELSE /\ out' = Quiet
            /\ Goto("rx", "r_recving")
  /\ UNCHANGED <<plat, obj, acc, msg, osv, obs>>

RxPeer == client_socket[2]       \* the peer the rx thread is reading from

\* the blocked recv() can still complete: its socket is open, or was closed
\* under it on a platform that leaves the call waiting
RecvAlive == hstate[client_socket] = "open" \/ ~closeWakes

\* what the rx thread does with the bytes one recv() returned (lines 77-89):
\* decoded text is printed and the inner loop continues; a decode failure
\* is caught by "except Exception", printed, and breaks the inner loop
RecvHandle(data) ==
  IF Utf8Valid(data)
    THEN /\ out' = Say("received", Decode(data))
         /\ Goto("rx", "r_inner")
    ELSE /\ out' = Say("recv_error", <<>>)
         /\ Goto("rx", "r_cleanup")

\* recv() returns between 1 and 1024 of the bytes that have arrived
RecvData ==
  /\ At("rx", "r_recving")
  /\ RecvAlive
  /\ peer[RxPeer] # "rst"
  /\ stream # <<>>
  /\ \E n \in 1..Min(BufSize, Len(stream)) :
       /\ stream' = Suffix(stream, n)
       /\ RecvHandle(Prefix(stream, n))
  /\ UNCHANGED <<plat, obj, acc, msg, hstate, closeCalls, peer, dgrams, obs>>

\* recv() returns b'': print("Client disconnected"), break
RecvEof ==
  /\ At("rx", "r_recving")
  /\ RecvAlive /\ peer[RxPeer] = "fin" /\ stream = <<>>
  /\ out' = Say("disconnected", <<>>)
  /\ Goto("rx", "r_cleanup")
  /\ UNCHANGED <<plat, obj, acc, msg, osv, obs>>

\* recv() raises ConnectionResetError: print, break
RecvReset ==
  /\ At("rx", "r_recving")
  /\ RecvAlive /\ peer[RxPeer] = "rst"
  /\ out' = Say("reset", <<>>)
  /\ Goto("rx", "r_cleanup")
  /\ UNCHANGED <<plat, obj, acc, msg, osv, obs>>

\* recv() raises because the socket was closed under it: print, break
RecvClosed ==
  /\ At("rx", "r_recving")
  /\ hstate[client_socket] = "closed" /\ closeWakes
  /\ out' = Say("recv_error", <<>>)
  /\ Goto("rx", "r_cleanup")
  /\ UNCHANGED <<plat, obj, acc, msg, osv, obs>>

\* clean up client socket: if self.client_socket:
RxCleanup ==
  /\ At("rx", "r_cleanup")
  /\ Goto("rx", IF client_socket # None THEN "r_cl_close" ELSE "r_loop")
  /\ out' = Quiet
  /\ UNCHANGED <<plat, obj, acc, msg, osv, obs>>

\* a cleanup that drops the client socket without closing it
RxCloseClientSkip ==
  /\ At("rx", "r_cl_close")
  /\ Goto("rx", "r_cl_none")
  /\ out' = Quiet
  /\ UNCHANGED <<plat, obj, acc, msg, osv, obs>>

\* self.client_socket.close(): no call is blocked on the socket, so the
\* connection is torn down and what was not read is discarded
RxCloseClient ==
  /\ At("rx", "r_cl_close")
  /\ hstate' = Closed(hstate, client_socket)
  /\ closeCalls' = Counted(closeCalls, client_socket)
  /\ stream' = <<>>
  /\ peer' = [peer EXCEPT ![RxPeer] = "gone"]
  /\ Goto("rx", "r_cl_none")
  /\ out' = Quiet
  /\ UNCHANGED <<plat, obj, acc, msg, dgrams, obs>>

\* a cleanup after which the receive thread returns instead of looping
RxClearClientExit ==
  /\ At("rx", "r_cl_none")
  /\ client_socket' = None
  /\ Goto("rx", "r_done")
  /\ out' = Quiet
  /\ UNCHANGED <<plat, running, server_socket, client_address, sock, acc, msg,
                 osv, obs>>

\* self.client_socket = None, then back to the outer loop test
RxClearClient ==
  /\ At("rx", "r_cl_none")
  /\ client_socket' = None
  /\ Goto("rx", "r_loop")
  /\ out' = Quiet
  /\ UNCHANGED <<plat, running, server_socket, client_address, sock, acc, msg,
                 osv, obs>>

\* except Exception (outer): print, close and clear a held client socket
RxExcept ==
  /\ At("rx", "r_exc")
  /\ out' = Say("conn_error", <<>>)
  /\ IF client_socket # None
       THEN /\ hstate' = Closed(hstate, client_socket)
            /\ closeCalls' = Counted(closeCalls, client_socket)
            /\ client_socket' = None
       ELSE UNCHANGED <<hstate, closeCalls, client_socket>>
  /\ Goto("rx", "r_sleep")
  /\ UNCHANGED <<plat, running, server_socket, client_address, sock, acc, msg,
                 peer, stream, dgrams, obs>>

\* a handler that gives up after the failure instead of retrying
RxBackoffExit ==
  /\ At("rx", "r_sleep")
  /\ Goto("rx", "r_done")
  /\ out' = Quiet
  /\ UNCHANGED <<plat, obj, acc, msg, osv, obs>>

\* time.sleep(1), then back to the outer loop test
RxBackoff ==
  /\ At("rx", "r_sleep")
  /\ Goto("rx", "r_loop")
  /\ out' = Quiet
  /\ UNCHANGED <<plat, obj, acc, msg, osv, obs>>

\* ---- TCPServer.command_loop and send_message (cmd thread)
\* while self.running:
CmdLoop ==
  /\ At("cmd", "c_loop")
  /\ Goto("cmd", IF running THEN "c_input" ELSE "c_done")
  /\ out' = Quiet
  /\ UNCHANGED <<plat, obj, acc, msg, osv, obs>>

\* a command loop that compares the line with 'quit' as typed
CmdInputExact ==
  /\ At("cmd", "c_input")
  /\ \E line \in Lines :
       /\ msg' = line
       /\ IF line = QUIT
            THEN /\ quitTyped' = TRUE /\ Goto("cmd", "s_flag")
            ELSE IF line # <<>>
              THEN /\ quitTyped' = quitTyped /\ Goto("cmd", "c_send_chk")
              ELSE /\ quitTyped' = quitTyped /\ Goto("cmd", "c_loop")
  /\ out' = Quiet
  /\ UNCHANGED <<plat, obj, acc, osv, falls, raised, stopsDone, interrupted>>

\* message = input() returns a line: quit in any case calls stop(), another
\* non-empty line calls send_message, an empty line goes back to the loop
\* test; the line stays in message until it has been sent or replaced
CmdInput ==
  /\ At("cmd", "c_input")
  /\ \E line \in Lines :
       /\ msg' = line
       /\ IF Lower(line) = QUIT
            THEN /\ quitTyped' = TRUE /\ Goto("cmd", "s_flag")
            ELSE IF line # <<>>
              THEN /\ quitTyped' = quitTyped /\ Goto("cmd", "c_send_chk")
              ELSE /\ quitTyped' = quitTyped /\ Goto("cmd", "c_loop")
  /\ out' = Quiet
  /\ UNCHANGED <<plat, obj, acc, osv, falls, raised, stopsDone, interrupted>>

\* send_message: if self.client_socket: ... else: print, return False
SendCheck ==
  /\ At("cmd", "c_send_chk")
  /\ IF client_socket # None
       THEN /\ Goto("cmd", "c_send") /\ msg' = msg /\ out' = Quiet
       ELSE /\ out' = Say("no_client", <<>>)
            /\ msg' = None
            /\ Goto("cmd", "c_loop")
  /\ UNCHANGED <<plat, obj, acc, osv, obs>>

\* send_message without its try/except: the error of a send on a missing or
\* dead socket leaves send_message and is caught by command_loop
SendDoRaise ==
  /\ At("cmd", "c_send")
  /\ IF client_socket # None /\ hstate[client_socket] = "open"
        /\ peer[client_socket[2]] # "rst"
       THEN out' = Say("sent", Encode(msg)) /\ raised' = raised
       ELSE out' = Say("command_error", <<>>) /\ raised' = raised \cup {"cmd"}
  /\ msg' = None
  /\ Goto("cmd", "c_loop")
  /\ UNCHANGED <<plat, obj, acc, osv, falls, stopsDone, quitTyped, interrupted>>

\* self.client_socket.send(message.encode('utf-8')) inside try/except: the
\* attribute is read again (None: AttributeError), a closed or reset socket
\* raises OSError; each is caught and printed, and False is returned
SendDo ==
  /\ At("cmd", "c_send")
  /\ IF client_socket # None /\ hstate[client_socket] = "open"
        /\ peer[client_socket[2]] # "rst"
       THEN out' = Say("sent", Encode(msg))
       ELSE out' = Say("send_error", <<>>)
  /\ msg' = None
  /\ Goto("cmd", "c_loop")
  /\ UNCHANGED <<plat, obj, acc, osv, obs>>

\* ---- stream peers (environment)
\* the connection to p is still held by the endpoint's process
PeerLinked(p) ==
  /\ peer[p] = "conn"
  /\ \/ hstate[PSock(p)] = "open"
     \/ pc["rx"] = "r_recving" /\ client_socket = PSock(p) /\ ~closeWakes

PeerConnect(p) ==
  /\ Live /\ transport = "Stream"
  /\ peer[p] = "idle"
  /\ \A q \in Peers : q < p => peer[q] # "idle"
  /\ Listening
  /\ peer' = [peer EXCEPT ![p] = "queued"]
  /\ out' = Quiet
  /\ UNCHANGED <<plat, obj, ctl, hstate, closeCalls, stream, dgrams, obs>>

PeerSend(p) ==
  /\ Live
  /\ PeerLinked(p)
  /\ \E d \in Payloads :
       /\ Len(stream) + Len(d) <= MaxStream
       /\ stream' = stream \o d
  /\ out' = Quiet
  /\ UNCHANGED <<plat, obj, ctl, hstate, closeCalls, peer, dgrams, obs>>

\* the peer sends while earlier data still waits: the stream carries no
\* message boundaries, so the bytes of separate sends lie back to back
PeerSendData(p) ==
  /\ Live
  /\ PeerLinked(p)
  /\ \E d \in DataPayloads :
       /\ Len(stream) + Len(d) <= MaxData
       /\ stream' = stream \o d
  /\ out' = Quiet
  /\ UNCHANGED <<plat, obj, ctl, hstate, closeCalls, peer, dgrams, obs>>

\* the peer closes its end (recv() then returns b'') or resets the connection
PeerClose(p) ==
  /\ Live
  /\ PeerLinked(p)
  /\ \E how \in {"fin", "rst"} : peer' = [peer EXCEPT ![p] = how]
  /\ out' = Quiet
  /\ UNCHANGED <<plat, obj, ctl, hstate, closeCalls, stream, dgrams, obs>>

\* ============================ server_UDP.py ============================

\* ---- main and UDPCommunicator.start (main thread)
UdpCreate ==
  /\ At("main", "u_sock")
  /\ sock' = DSock
  /\ hstate' = [hstate EXCEPT ![DSock] = "open"]
  /\ Goto("main", "u_run")
  /\ out' = Quiet
  /\ UNCHANGED <<plat, running, server_socket, client_socket, client_address,
                 acc, msg, closeCalls, peer, stream, dgrams, obs>>

UdpSetRunning ==
  /\ At("main", "u_run")
  /\ running' = TRUE
  /\ Goto("main", "u_thr")
  /\ out' = Quiet
  /\ UNCHANGED <<plat, server_socket, client_socket, client_address, sock,
                 acc, msg, osv, obs>>

\* the receiver thread is started; start() goes on into _handle_user_input
UdpStartReceive ==
  /\ At("main", "u_thr")
  /\ pc' = [pc EXCEPT !["main"] = "u_loop", !["rx"] = "ur_loop"]
  /\ out' = Quiet
  /\ UNCHANGED <<plat, obj, acc, msg, osv, obs>>

\* ---- UDPCommunicator.stop: the call in _handle_user_input ("us_") and
\* the call in main's finally clause ("uf_")
\* self.running = False
UdpStopFlag(from, to) ==
  /\ At("main", from)
  /\ running' = FALSE
  /\ falls' = IF running THEN falls + 1 ELSE falls
  /\ Goto("main", to)
  /\ out' = Quiet
  /\ UNCHANGED <<plat, server_socket, client_socket, client_address, sock,
                 acc, msg, osv, raised, stopsDone, quitTyped, interrupted>>

\* if self.sock: self.sock.close(); return
UdpStopClose(from, to) ==
  /\ At("main", from)
  /\ IF sock # None
       THEN /\ hstate' = Closed(hstate, sock)
            /\ closeCalls' = Counted(closeCalls, sock)
       ELSE UNCHANGED <<hstate, closeCalls>>
  /\ stopsDone' = stopsDone + 1
  /\ Goto("main", to)
  /\ out' = Quiet
  /\ UNCHANGED <<plat, obj, acc, msg, peer, stream, dgrams, falls, raised,
                 quitTyped, interrupted>>

\* stop() in _handle_user_input, then break: start() returns into finally
UdpStop1Flag == UdpStopFlag("us_flag", "us_close")
UdpStop1Close == UdpStopClose("us_close", "uf_flag")
\* stop() in main's finally, then print("Goodbye!") and the process ends
UdpStop2Flag == UdpStopFlag("uf_flag", "uf_close")
UdpStop2Close == UdpStopClose("uf_close", "m_done")

\* ---- UDPCommunicator._handle_user_input and send_message (main thread)
\* while self.running:
UdpLoop ==
  /\ At("main", "u_loop")
  /\ Goto("main", IF running THEN "u_input" ELSE "uf_flag")
  /\ out' = Quiet
  /\ UNCHANGED <<plat, obj, acc, msg, osv, obs>>

\* message = input(...) and its dispatch, as in the stream command loop
UdpInput ==
  /\ At("main", "u_input")
  /\ \E line \in Lines :
       /\ msg' = line
       /\ IF Lower(line) = QUIT
            THEN /\ quitTyped' = TRUE /\ Goto("main", "us_flag")
            ELSE IF line # <<>>
              THEN /\ quitTyped' = quitTyped /\ Goto("main", "u_send")
              ELSE /\ quitTyped' = quitTyped /\ Goto("main", "u_loop")
  /\ out' = Quiet
  /\ UNCHANGED <<plat, obj, acc, osv, falls, raised, stopsDone, interrupted>>

\* a send_message that tries again after a failure instead of returning
UdpSendRetry ==
  /\ At("main", "u_send")
  /\ \/ /\ hstate[sock] = "open" /\ out' = Say("sent", Encode(msg))
        /\ msg' = None
        /\ Goto("main", "u_loop")
     \/ /\ out' = Say("send_error", <<>>)
        /\ UNCHANGED <<pc, msg>>
  /\ UNCHANGED <<plat, obj, acc, osv, obs>>

\* self.sock.sendto(...) inside try/except Exception: the datagram is sent,
\* or the failure is printed; either way send_message returns
UdpSend ==
  /\ At("main", "u_send")
  /\ \/ hstate[sock] = "open" /\ out' = Say("sent", Encode(msg))
     \/ out' = Say("send_error", <<>>)
  /\ msg' = None
  /\ Goto("main", "u_loop")
  /\ UNCHANGED <<plat, obj, acc, osv, obs>>

\* KeyboardInterrupt: inside _handle_user_input it is caught there (stop(),
\* break); earlier in start() it reaches main (print, then finally)
UdpInterrupt ==
  /\ Live /\ transport = "Datagram" /\ ~interrupted
  /\ interrupted' = TRUE
  /\ \/ /\ pc["main"] \in {"u_loop", "u_input", "u_send"}
        /\ Goto("main", "us_flag")
     \/ /\ pc["main"] \in {"u_sock", "u_run", "u_thr"}
        /\ Goto("main", "uf_flag")
  /\ msg' = None
  /\ out' = Quiet
  /\ UNCHANGED <<plat, obj, acc, osv, falls, raised, stopsDone, quitTyped>>

\* ---- UDPCommunicator._receive_messages (rx thread)
\* while self.running:
UdpRxLoop ==
  /\ At("rx", "ur_loop")
  /\ Goto("rx", IF running THEN "ur_recv" ELSE "r_done")
  /\ out' = Quiet
  /\ UNCHANGED <<plat, obj, acc, msg, osv, obs>>

\* except socket.error: if self.running: print(...); break
UdpSockError ==
  /\ out' = IF running THEN Say("sock_error", <<>>) ELSE Quiet
  /\ Goto("rx", "r_done")

\* self.sock.recvfrom(1024) is called: on a closed socket object it raises
\* at once, otherwise the thread blocks in the call
UdpRecvCall ==
  /\ At("rx", "ur_recv")
  /\ IF hstate[sock] = "closed"
       THEN UdpSockError
       ELSE /\ out' = Quiet /\ Goto("rx", "ur_recving")
  /\ UNCHANGED <<plat, obj, acc, msg, osv, obs>>

\* the bound socket still receives: it is open, or was closed under a
\* blocked recvfrom() that the platform leaves waiting
UdpBound ==
  \/ hstate[DSock] = "open"
  \/ hstate[DSock] = "closed" /\ pc["rx"] = "ur_recving" /\ ~closeWakes

\* a datagram handler whose decode failure ends the loop, as a "break" in
\* the "except Exception" clause would
UdpHandleBreak(data) ==
  IF Utf8Valid(data)
    THEN /\ out' = Say("received", Decode(data))
         /\ Goto("rx", "ur_loop")
    ELSE /\ out' = Say("error", <<>>)
         /\ Goto("rx", "r_done")

\* what the rx thread does with one datagram's bytes (lines 50-59): decoded
\* text is printed; a decode failure is caught by "except Exception",
\* printed, and the loop goes on
UdpHandle(data) ==
  IF Utf8Valid(data)
    THEN /\ out' = Say("received", Decode(data))
         /\ Goto("rx", "ur_loop")
    ELSE /\ out' = Say("error", <<>>)
         /\ Goto("rx", "ur_loop")

\* recvfrom() returns the first 1024 bytes of the next datagram
UdpRecvData ==
  /\ At("rx", "ur_recving")
  /\ UdpBound
  /\ dgrams # <<>>
  /\ dgrams' = Tail(dgrams)
  /\ UdpHandle(Prefix(Head(dgrams), Min(BufSize, Len(Head(dgrams)))))
  /\ UNCHANGED <<plat, obj, acc, msg, hstate, closeCalls, peer, stream, obs>>

\* recvfrom() raises because the socket was closed under it
UdpRecvClosed ==
  /\ At("rx", "ur_recving")
  /\ hstate[DSock] = "closed" /\ closeWakes
  /\ UdpSockError
  /\ UNCHANGED <<plat, obj, acc, msg, osv, obs>>

\* recvfrom() raises a transient socket error while the socket is open
UdpRecvTransient ==
  /\ At("rx", "ur_recving")
  /\ hstate[DSock] = "open"
  /\ UdpSockError
  /\ UNCHANGED <<plat, obj, acc, msg, osv, obs>>

\* ---- datagram senders (environment)
DgramArrive ==
  /\ Live /\ transport = "Datagram"
  /\ UdpBound
  /\ Len(dgrams) < MaxDgrams
  /\ \E d \in Payloads : dgrams' = Append(dgrams, d)
  /\ out' = Quiet
  /\ UNCHANGED <<plat, obj, ctl, hstate, closeCalls, peer, stream, obs>>

\* ========================== the specifications ==========================
TcpMain ==
  \/ TcpCreate \/ TcpSetRunning \/ TcpStartReceive \/ TcpStartCommand
  \/ MainSleep
TcpStop(t) ==
  \/ StopFlag(t) \/ StopCheckClient(t) \/ StopCloseClient(t) \/ StopCloseServer(t)
TcpRx ==
  \/ RxLoop \/ AcceptCall \/ AcceptReturn \/ AcceptClosed \/ AcceptAssign
  \/ RxInner \/ RecvCall \/ RecvData \/ RecvEof \/ RecvReset \/ RecvClosed
  \/ RxCleanup \/ RxCloseClient \/ RxClearClient \/ RxExcept \/ RxBackoff
TcpCmd == CmdLoop \/ SendCheck \/ SendDo
UdpMain ==
  \/ UdpCreate \/ UdpSetRunning \/ UdpStartReceive \/ UdpLoop \/ UdpSend
  \/ UdpStop1Flag \/ UdpStop1Close \/ UdpStop2Flag \/ UdpStop2Close
UdpRx == UdpRxLoop \/ UdpRecvCall \/ UdpRecvData \/ UdpRecvClosed

\* steps the program takes by itself
Program ==
  \/ TcpMain \/ TcpStop("main") \/ TcpStop("cmd") \/ TcpRx \/ TcpCmd
  \/ UdpMain \/ UdpRx

\* steps of the operator, the peers and the network
Environment ==
  \/ TcpInterrupt \/ UdpInterrupt \/ CmdInput \/ UdpInput
  \/ AcceptTransient \/ UdpRecvTransient
  \/ (\E p \in Peers : PeerConnect(p) \/ PeerSend(p) \/ PeerClose(p))
  \/ DgramArrive

Next == Program \/ Environment

Spec == Init /\ [][Next]_vars

\* the same program with peers that send more, and more closely, than the
\* receive loop reads
DataEnvironment ==
  \/ TcpInterrupt \/ UdpInterrupt \/ CmdInput \/ UdpInput
  \/ AcceptTransient \/ UdpRecvTransient
  \/ (\E p \in Peers : PeerConnect(p) \/ PeerSendData(p) \/ PeerClose(p))
  \/ DgramArrive

DataNext == Program \/ DataEnvironment

DataSpec == Init /\ [][DataNext]_vars

\* every thread that can take a step eventually takes one; the operator,
\* the peers and the network are under no obligation
FairSpec ==
  /\ Spec
  /\ WF_vars(TcpMain \/ UdpMain \/ TcpStop("main"))
  /\ WF_vars(TcpRx \/ UdpRx)
  /\ WF_vars(TcpCmd \/ TcpStop("cmd"))

\* ============================== the claims ==============================
Created == {h \in Handles : hstate[h] # "unborn"}
StopCalled == quitTyped \/ interrupted     \* each is followed by stop()
RxBlocked == pc["rx"] \in {"r_accepting", "r_recving", "ur_recving"}
InputBlocked == pc["cmd"] = "c_input" \/ pc["main"] = "u_input"
\* every step of the program other than the main thread's keep-alive sleep
Working ==
  \/ TcpCreate \/ TcpSetRunning \/ TcpStartReceive \/ TcpStartCommand
  \/ TcpStop("main") \/ TcpStop("cmd") \/ TcpRx \/ TcpCmd \/ UdpMain \/ UdpRx
\* the process is alive and, left alone, does nothing more than sleep
AtRest == Live /\ ~ENABLED Working

\* C1: stop() is idempotent and never raises: no stop() call, from the
\* command loop or from the main thread, under any interleaving with the
\* receive loop, raises; and once a call has returned the endpoint is in the
\* state one call leaves (running false, listening or datagram socket
\* closed), however many calls were made.
C1_StopNeverRaises ==
  /\ raised = {}
  /\ stopsDone >= 1 =>
       /\ ~running
       /\ server_socket # None => hstate[server_socket] = "closed"
       /\ sock # None => hstate[sock] = "closed"

\* C3: after shutdown is requested no task stays blocked: once a stop() call
\* has returned and the live process has come to rest, no thread is still
\* inside accept(), recv(), recvfrom() or input().
C3_BlockedTasksReturn ==
  (stopsDone >= 1 /\ AtRest) => ~RxBlocked /\ ~InputBlocked

\* C4: typing quit exits the stream server: once quit has been read and the
\* program has nothing left to do but sleep, the receive loop, the command
\* loop and the main keep-alive loop have all ended.
C4_QuitExits ==
  (transport = "Stream" /\ quitTyped /\ ~interrupted /\ ~ENABLED Working) =>
     /\ pc["rx"] = "r_done"
     /\ pc["cmd"] = "c_done"
     /\ pc["main"] = "m_done"

\* C5: after stop() has been invoked every socket handle of the endpoint
\* ends up closed: when the live process has come to rest after a stop()
\* call, no handle it created is open.
C5_AllHandlesClosed ==
  (StopCalled /\ AtRest) => \A h \in Created : hstate[h] = "closed"

SessionEnded == transport = "Stream" /\ pc["rx"] = "r_cleanup" /\ running
BackInAccept ==
  /\ pc["rx"] = "r_accepting"
  /\ client_socket = None
  /\ hstate[LSock] = "open"
  /\ \A p \in Peers : hstate[PSock(p)] # "open"
C2_Reconnect ==
  /\ []((transport = "Stream" /\ pc["rx"] = "r_done") => ~running)
  /\ SessionEnded ~> (BackInAccept \/ ~running)
\* a second peer is connected after the first session ended, and a message
\* from it has just been received
C2_Witness ==
  /\ running
  /\ hstate[PSock(1)] = "closed"
  /\ client_socket = PSock(2)
  /\ out = Say("received", <<65>>)

\* C7: the running flag is monotonic: it falls at most once, after a fall it
\* is false for good, and once the stop() that a quit line calls has set the
\* flag exactly one fall has happened.
QuitHandled ==
  /\ quitTyped
  /\ IF transport = "Stream" THEN pc["cmd"] # "s_flag" ELSE pc["main"] # "us_flag"
C7_RunningMonotonic ==
  /\ falls <= 1
  /\ falls >= 1 => ~running
  /\ QuitHandled => falls = 1
\* quit and the external interrupt have both called stop()
C7_Witness == QuitHandled /\ interrupted /\ stopsDone = 2 /\ falls = 1

\* C8: at most one active peer: at most one accepted socket is open at any
\* time, and accept() is called and waited in only while no client socket is
\* held and every socket accepted before is closed.
OpenPeers == {p \in Peers : hstate[PSock(p)] = "open"}
C8_OnePeer ==
  /\ Cardinality(OpenPeers) <= 1
  /\ pc["rx"] \in {"r_accept", "r_accepting"} =>
       client_socket = None /\ OpenPeers = {}
\* a second peer is held after the first one's socket was closed
C8_Witness ==
  /\ hstate[PSock(1)] = "closed"
  /\ hstate[PSock(2)] = "open"
  /\ client_socket = PSock(2)

\* C9: stream decode failure is not fatal: the step in which recv() returns
\* bytes that are not valid UTF-8 prints a diagnostic, shows no message, and
\* continues the inner read loop with the same client socket, still open.
C9_StreamDecodeNotFatal ==
  [][ ( /\ transport = "Stream"
        /\ pc["rx"] = "r_recving"
        /\ Len(stream') < Len(stream)
        /\ ~Utf8Valid(Prefix(stream, Len(stream) - Len(stream'))) )
      => ( /\ out'.kind = "recv_error"
           /\ pc'["rx"] = "r_inner"
           /\ client_socket' = client_socket
           /\ hstate' = hstate ) ]_vars

\* C10: datagram decode failure is not fatal: the step in which recvfrom()
\* returns bytes that are not valid UTF-8 prints a diagnostic, shows no
\* message, and goes back to the loop test with the flag and the socket as
\* they were, so that the next datagram is received.
C10_DatagramDecodeNotFatal ==
  [][ ( /\ transport = "Datagram"
        /\ pc["rx"] = "ur_recving"
        /\ dgrams # <<>>
        /\ dgrams' = Tail(dgrams)
        /\ ~Utf8Valid(Prefix(Head(dgrams), Min(BufSize, Len(Head(dgrams))))) )
      => ( /\ out'.kind = "error"
           /\ pc'["rx"] = "ur_loop"
           /\ running' = running
           /\ hstate' = hstate ) ]_vars
\* an undecodable datagram has just been dropped, the loop goes on and the
\* next datagram waits to be read
C10_Witness ==
  /\ transport = "Datagram"
  /\ out = Say("error", <<>>)
  /\ pc["rx"] = "ur_loop"
  /\ running
  /\ dgrams # <<>>

\* C11: a datagram socket error is recovered locally: when recvfrom() raises
\* a socket error while the running flag is true, the receive loop goes on
\* listening, so the receive task has not ended while the flag is still true.
C11_DatagramErrorRecovered ==
  (transport = "Datagram" /\ Live /\ pc["rx"] = "r_done") => ~running

\* C12: a line sent while no peer is connected: when send_message finds no
\* client socket, or finds one at its test that the receive loop clears or
\* closes before the send, nothing is transmitted, the condition is printed,
\* send_message returns without raising and the command loop goes back to
\* its loop test with the line dropped.
C12_NotConnectedSend ==
  [][ ( /\ transport = "Stream"
        /\ pc'["cmd"] # pc["cmd"]
        /\ \/ pc["cmd"] = "c_send_chk" /\ client_socket = None
           \/ /\ pc["cmd"] = "c_send"
              /\ \/ client_socket = None
                 \/ hstate[client_socket] # "open" )
      => ( /\ out'.kind = (IF pc["cmd"] = "c_send_chk"
                             THEN "no_client" ELSE "send_error")
           /\ pc'["cmd"] = "c_loop"
           /\ msg' = None
           /\ raised' = raised
           /\ obj' = obj
           /\ osv' = osv ) ]_vars
\* the receive loop cleared the client socket between send_message's test
\* and its send: the error was printed and the command loop goes on
C12_Witness ==
  /\ transport = "Stream"
  /\ out = Say("send_error", <<>>)
  /\ client_socket = None
  /\ pc["cmd"] = "c_loop"
  /\ running
  /\ raised = {}

\* C13: a datagram send is fire-and-forget: the main thread's step that
\* performs send_message (not the receive thread's, an arriving datagram or
\* a keyboard interrupt) either hands the line to sendto() or prints the failure; in
\* both cases it returns to the input loop's test without raising, the line
\* is dropped after this one attempt, and neither the flag, the socket nor
\* any other state of the communicator changes.
C13_DatagramSendOnce ==
  [][ ( /\ transport = "Datagram"
        /\ pc["main"] = "u_send"
        /\ interrupted' = interrupted
        /\ pc'["rx"] = pc["rx"]
        /\ dgrams' = dgrams )
      => ( /\ \/ out' = Say("sent", Encode(msg))
              \/ out' = Say("send_error", <<>>)
           /\ pc'["main"] = "u_loop"
           /\ msg' = None
           /\ raised' = raised
           /\ obj' = obj
           /\ hstate' = hstate ) ]_vars
\* a send has just failed: the failure was printed, and the input loop is
\* at its test with the communicator still running and its socket open
C13_Witness ==
  /\ transport = "Datagram"
  /\ out = Say("send_error", <<>>)
  /\ pc["main"] = "u_loop"
  /\ msg = None
  /\ running
  /\ hstate[DSock] = "open"

\* C14: fragmentation: a text payload larger than the receive buffer
\* reaches the sink as several messages, each a contiguous slice of it: the
\* read that takes the first part shows that part as a message, keeps the
\* receive
\* loop and its socket as they were, and leaves the rest of the payload to
\* be returned by the next read; for recv() on the stream and for
\* recvfrom() on the datagram socket.
C14_Fragmentation ==
  /\ [][ ( /\ transport = "Stream"
           /\ pc["rx"] = "r_recving"
           /\ Len(stream) > BufSize
           /\ Utf8Valid(stream)
           /\ Len(stream') < Len(stream) )
         => ( /\ out'.kind = "received"
              /\ Encode(out'.data) = Prefix(stream, Len(stream) - Len(stream'))
              /\ stream' = Suffix(stream, Len(stream) - Len(stream'))
              /\ pc'["rx"] = "r_inner"
              /\ client_socket' = client_socket
              /\ hstate' = hstate ) ]_vars
  /\ [][ ( /\ transport = "Datagram"
           /\ pc["rx"] = "ur_recving"
           /\ pc'["rx"] # pc["rx"]
           /\ dgrams # <<>>
           /\ dgrams' # dgrams
           /\ Len(Head(dgrams)) > BufSize
           /\ Utf8Valid(Head(dgrams)) )
         => ( /\ out'.kind = "received"
              /\ Encode(out'.data) = Prefix(Head(dgrams), BufSize)
              /\ dgrams' = <<Suffix(Head(dgrams), BufSize)>> \o Tail(dgrams)
              /\ pc'["rx"] = "ur_loop"
              /\ hstate' = hstate ) ]_vars

\* the sends of the model that are text and fit the receive buffer
SmallSends == {d \in DataPayloads : Utf8Valid(d) /\ Len(d) <= BufSize}
\* C15: round trip: a string whose encoding fits the receive buffer and is
\* sent over an established connection reaches the sink as exactly that
\* string: decoding inverts encoding, and every message the stream sink
\* shows (pieces of the oversize payload aside) is one whole send, neither
\* merged with another send nor a part of one.
C15_RoundTrip ==
  /\ \A d \in SmallSends : Encode(Decode(d)) = d
  /\ ( /\ transport = "Stream"
       /\ out.kind = "received"
       /\ \A i \in DOMAIN out.data : out.data[i] # Oversize[1] )
     => Encode(out.data) \in SmallSends

\* C16: the stored peer address is set only while a peer is connected: when
\* the server holds no client socket (before the first accept, after a
\* disconnect, after a shutdown that found no peer) client_address is unset.
C16_AddressOnlyWhileConnected ==
  (transport = "Stream" /\ client_socket = None) => client_address = None

\* C17: Closed is terminal and reached only through stop(): once stop() has
\* set the running flag false no step stores a new peer as the server's
\* client socket, and the listening socket is closed only if stop() was
\* called.
C17_ClosedTerminal ==
  /\ [](hstate[LSock] = "closed" => StopCalled)
  /\ [][ (transport = "Stream" /\ falls >= 1)
           => (client_socket' = client_socket \/ client_socket' = None) ]_vars

\* the kinds of output that report an error of the receive loop
ErrorKinds == {"recv_error", "conn_error", "sock_error", "error"}
\* C18: the shutdown path is silent: when the running flag is already false
\* and the receive thread handles the failure of accept(), recv() or
\* recvfrom() on a socket that stop() closed, it prints no error (an error
\* is printed only while the flag is true); for the stream loop and for the
\* datagram loop.
C18_SilentShutdown ==
  [][ ( /\ ~running
        /\ falls >= 1
        /\ pc'["rx"] # pc["rx"]
        /\ \/ pc["rx"] = "r_exc" /\ hstate[LSock] = "closed"
           \/ /\ pc["rx"] \in {"r_recv", "r_recving"}
              /\ client_socket # None
              /\ hstate[client_socket] = "closed"
              /\ stream' = stream
           \/ /\ pc["rx"] \in {"ur_recv", "ur_recving"}
              /\ hstate[DSock] = "closed"
              /\ dgrams' = dgrams )
      => out'.kind \notin ErrorKinds ]_vars

\* C19: the accept loop retries: after accept() has failed the receive
\* thread prints the error if the flag is true, sleeps once and goes back
\* to the loop test, which calls accept() again while the flag is true; so
\* under fair scheduling a failure with the flag true leads to a new
\* accept() call or to shutdown.  When the flag is false (stop() closed the
\* listening socket) the thread only moves from the handler through one
\* sleep and the loop test to its end, and never to accept() again.
C19_AcceptRetry ==
  /\ [][ (transport = "Stream" /\ pc'["rx"] # pc["rx"])
         => /\ pc["rx"] = "r_exc" =>
                 /\ pc'["rx"] = "r_sleep"
                 /\ running => out' = Say("conn_error", <<>>)
            /\ pc["rx"] = "r_sleep" => pc'["rx"] = "r_loop"
            /\ pc["rx"] = "r_loop" =>
                 pc'["rx"] = (IF running THEN "r_accept" ELSE "r_done")
            /\ pc["rx"] = "r_done" => FALSE ]_vars
  /\ (transport = "Stream" /\ pc["rx"] = "r_exc" /\ running)
       ~> (pc["rx"] = "r_accept" \/ ~running)
\* accept() failed while the flag is true: the error has been printed and
\* the thread is in its backoff sleep
C19_Witness ==
  /\ transport = "Stream"
  /\ pc["rx"] = "r_sleep"
  /\ out = Say("conn_error", <<>>)
  /\ running
  /\ hstate[LSock] = "open"

\* the line is the word quit, each letter in either case
QuitAnyCase(line) ==
  /\ Len(line) = 4
  /\ line[1] \in {113, 81} /\ line[2] \in {117, 85}
  /\ line[3] \in {105, 73} /\ line[4] \in {116, 84}
\* what the step that read the line must have done: to is where the input
\* thread went
Dispatched(line, to, stop, send, loop) ==
  /\ out' = Quiet
  /\ IF line = <<>>
       THEN to = loop /\ obj' = obj /\ osv' = osv /\ obs' = obs
       ELSE IF QuitAnyCase(line)
         THEN to = stop /\ quitTyped'
         ELSE to = send /\ obj' = obj /\ osv' = osv /\ obs' = obs
\* C20: command dispatch, in both transports: an empty line causes no send
\* and no state change; a line equal to quit in any letter case starts
\* stop(), after which the input thread transmits nothing and reads no
\* further line; every other non-empty line goes to send_message, whose one
\* attempt transmits the encoded line as typed and then drops it.
C20_CommandDispatch ==
  /\ [][ (pc["cmd"] = "c_input" /\ pc'["cmd"] # "c_input")
         => Dispatched(msg', pc'["cmd"], "s_flag", "c_send_chk", "c_loop") ]_vars
  /\ [][ ( /\ pc["main"] = "u_input" /\ pc'["main"] # "u_input"
           /\ interrupted' = interrupted )
         => Dispatched(msg', pc'["main"], "us_flag", "u_send", "u_loop") ]_vars
  /\ [][ (pc["cmd"] = "c_send_chk" /\ pc'["cmd"] # "c_send_chk")
         => \/ pc'["cmd"] = "c_send" /\ msg' = msg /\ out' = Quiet
            \/ pc'["cmd"] = "c_loop" /\ msg' = None /\ out'.kind = "no_client"
       ]_vars
  /\ [][ ( \/ pc["cmd"] = "c_send" /\ pc'["cmd"] # "c_send"
           \/ /\ pc["main"] = "u_send" /\ pc'["main"] # "u_send"
              /\ interrupted' = interrupted )
         => /\ out' = Say("sent", Encode(msg)) \/ out'.kind = "send_error"
            /\ msg' = None
            /\ pc'["cmd"] = "c_loop" \/ pc'["main"] = "u_loop" ]_vars
  /\ [][ ( \/ pc["cmd"] \in {"c_send_chk", "c_send"} /\ pc'["cmd"] = pc["cmd"]
           \/ pc["main"] = "u_send" /\ pc'["main"] = pc["main"] )
         => msg' = msg /\ out'.kind # "sent" ]_vars
  /\ [][ quitTyped => out'.kind # "sent" ]_vars
  /\ [](quitTyped => /\ pc["cmd"] \notin {"c_input", "c_send_chk", "c_send"}
                     /\ pc["main"] \notin {"u_input", "u_send"})
\* a line that is not quit and not ASCII has just been transmitted once, as
\* its UTF-8 encoding, and the loop is back at its test
C20_Witness ==
  /\ out = Say("sent", <<195, 169>>)
  /\ msg = None
  /\ pc["cmd"] = "c_loop" \/ pc["main"] = "u_loop"
  /\ running

\* C21: no send after shutdown: once stop() has set the running flag false,
\* a line that the input prompt returns is not handed to send_message, and
\* no step transmits bytes to the peer.
C21_NoSendAfterShutdown ==
  /\ [][ ( /\ ~running /\ falls >= 1
           /\ pc["cmd"] = "c_input" /\ pc'["cmd"] # "c_input" )
         => pc'["cmd"] # "c_send_chk" ]_vars
  /\ [][ ( /\ ~running /\ falls >= 1
           /\ pc["main"] = "u_input" /\ pc'["main"] # "u_input" )
         => pc'["main"] # "u_send" ]_vars
  /\ [][ (~running /\ falls >= 1) => out'.kind # "sent" ]_vars

====
